---- MODULE Spec2Model ----
(***************************************************************************)
(* Model of inference_utils.py: VideoReader, VideoWriter,                  *)
(* ImageSequenceReader and ImageSequenceWriter.                            *)
(*                                                                         *)
(* Python values are records [t, k, num, den, s]: t is the Python type,    *)
(* num/den the numeric payload, s the characters of a str.  A float is a   *)
(* binary floating-point number: k = "fin" with the exact dyadic value     *)
(* num/den, or k = "nan" / "inf" / "ninf".                                 *)
(***************************************************************************)
EXTENDS Integers, Sequences, FiniteSets, TLC

(***************************************************************************)
(* Bounds of the model.                                                    *)
(***************************************************************************)
\* Precision (significand bits) of the modelled binary float format.
FloatBits == 16
\* Longest generated frame-rate string.
MaxStrLen == 3
\* Largest generated integer frame rate.
MaxIntRate == 4
\* Most frames handed to one VideoWriter in total.
MaxFrames == 3
\* Longest batch of one write call.
MaxBatch == 2
\* Most close() calls on one writer.
MaxClose == 2
\* Most frames handed to one ImageSequenceWriter in total.
MaxImages == 11
\* Most files in the directory an ImageSequenceReader lists / frames of a video.
MaxLen == 3

(***************************************************************************)
(* Arithmetic helpers.                                                     *)
(***************************************************************************)
Abs(x) == IF x < 0 THEN -x ELSE x

RECURSIVE Gcd(_, _)
Gcd(a, b) == IF b = 0 THEN Abs(a) ELSE Gcd(b, a % b)

RECURSIVE Pow(_, _)
Pow(b, e) == IF e = 0 THEN 1 ELSE b * Pow(b, e - 1)

(***************************************************************************)
(* Python values.                                                          *)
(***************************************************************************)
PyInt(n) == [t |-> "int", k |-> "", num |-> n, den |-> 1, s |-> << >>]
PyFloat(n, d) == [t |-> "float", k |-> "fin", num |-> n, den |-> d, s |-> << >>]
PyNan == [t |-> "float", k |-> "nan", num |-> 0, den |-> 1, s |-> << >>]
PyInf == [t |-> "float", k |-> "inf", num |-> 0, den |-> 1, s |-> << >>]
PyNegInf == [t |-> "float", k |-> "ninf", num |-> 0, den |-> 1, s |-> << >>]
PyStr(cs) == [t |-> "str", k |-> "", num |-> 0, den |-> 1, s |-> cs]
PyNone == [t |-> "NoneType", k |-> "", num |-> 0, den |-> 1, s |-> << >>]

\* fractions.Fraction(n, d): normalised to lowest terms, denominator > 0.
Fraction(n, d) ==
    LET g == Gcd(Abs(n), Abs(d))
        sg == IF d < 0 THEN -1 ELSE 1
    IN  [t |-> "Fraction", k |-> "", num |-> sg * (n \div g), den |-> sg * (d \div g),
         s |-> << >>]

(***************************************************************************)
(* Binary floating point: the float nearest to the rational n/d (n >= 0,   *)
(* d > 0), round-half-to-even, FloatBits significand bits.                 *)
(***************************************************************************)
\* least e >= 0 with n * 2^e >= d * 2^(FloatBits-1)
RECURSIVE ScaleUp(_, _, _)
ScaleUp(n, d, e) ==
    IF n * Pow(2, e) >= d * Pow(2, FloatBits - 1) THEN e ELSE ScaleUp(n, d, e + 1)

\* least e >= 0 with n < d * 2^e * 2^FloatBits
RECURSIVE ScaleDown(_, _, _)
ScaleDown(n, d, e) ==
    IF n < d * Pow(2, e) * Pow(2, FloatBits) THEN e ELSE ScaleDown(n, d, e + 1)

\* n/d rounded to the nearest integer, ties to even (n >= 0, d > 0)
RoundHalfEven(n, d) ==
    LET q == n \div d
        r == n % d
    IN  IF 2 * r < d THEN q
        ELSE IF 2 * r > d THEN q + 1
        ELSE IF q % 2 = 0 THEN q ELSE q + 1

\* the float nearest to sign * n/d
NearestFloat(sign, n, d) ==
    IF n = 0 THEN PyFloat(0, 1)
    ELSE IF n < d * Pow(2, FloatBits)
    THEN LET e == ScaleUp(n, d, 0)
             m == RoundHalfEven(n * Pow(2, e), d)
             g == Gcd(m, Pow(2, e))
         IN  PyFloat(sign * (m \div g), Pow(2, e) \div g)
    ELSE LET e == ScaleDown(n, d, 0)
             m == RoundHalfEven(n, d * Pow(2, e))
         IN  PyFloat(sign * m * Pow(2, e), 1)

(***************************************************************************)
(* Fraction(x).limit_denominator(max_denominator): the continued-fraction  *)
(* search of fractions.py, on the exact value num/den of a finite float.   *)
(***************************************************************************)
RECURSIVE LimitLoop(_, _, _, _, _, _, _)
LimitLoop(p0, q0, p1, q1, n, d, maxd) ==
    LET a == n \div d
        q2 == q0 + a * q1
    IN  IF q2 > maxd
        THEN <<p0, q0, p1, q1>>
        ELSE LimitLoop(p1, q1, p0 + a * p1, q2, d, n - a * d, maxd)

\* naive truncation to a multiple of 1/maxd instead of the best approximation
LimitDenominatorMutNaive(num, den, maxd) ==
    IF den <= maxd THEN Fraction(num, den)
    ELSE Fraction((num * maxd) \div den, maxd)

LimitDenominator(num, den, maxd) ==
    IF den <= maxd THEN Fraction(num, den)
    ELSE LET c == LimitLoop(0, 1, 1, 0, num, den, maxd)
             p0 == c[1]
             q0 == c[2]
             p1 == c[3]
             q1 == c[4]
             k == (maxd - q0) \div q1
             b1n == p0 + k * p1
             b1d == q0 + k * q1
             \* abs(bound2 - self) <= abs(bound1 - self)
         IN  IF Abs(p1 * den - num * q1) * b1d <= Abs(b1n * den - num * b1d) * q1
             THEN Fraction(p1, q1)
             ELSE Fraction(b1n, b1d)

(***************************************************************************)
(* float(s) on a str.  Modelled grammar: surrounding blanks are stripped,  *)
(* an optional sign, then "nan", "inf", or decimal digits with at most one *)
(* ".", at least one digit.  Anything else raises ValueError.  Characters  *)
(* of exponents and digit grouping ("e", "_") are outside the alphabet of  *)
(* the generated inputs.                                                   *)
(***************************************************************************)
Digits == {"0", "1", "2", "3", "4", "5", "6", "7", "8", "9"}

DigitVal(c) ==
    CASE c = "0" -> 0 [] c = "1" -> 1 [] c = "2" -> 2 [] c = "3" -> 3 [] c = "4" -> 4
      [] c = "5" -> 5 [] c = "6" -> 6 [] c = "7" -> 7 [] c = "8" -> 8 [] c = "9" -> 9

RECURSIVE StripLeft(_)
StripLeft(cs) ==
    IF cs # << >> /\ Head(cs) = " " THEN StripLeft(Tail(cs)) ELSE cs

RECURSIVE StripRight(_)
StripRight(cs) ==
    IF cs # << >> /\ cs[Len(cs)] = " " THEN StripRight(SubSeq(cs, 1, Len(cs) - 1)) ELSE cs

Strip(cs) == StripRight(StripLeft(cs))

\* the decimal digits of cs read as a natural number
RECURSIVE DigitsValue(_)
DigitsValue(cs) ==
    IF cs = << >> THEN 0
    ELSE 10 * DigitsValue(SubSeq(cs, 1, Len(cs) - 1)) + DigitVal(cs[Len(cs)])

\* [ok, v]: ok = FALSE is ValueError, else v is the float
ParseFloat(cs) ==
    LET st == Strip(cs)
        neg == st # << >> /\ Head(st) = "-"
        signed == st # << >> /\ Head(st) \in {"-", "+"}
        body == IF signed THEN Tail(st) ELSE st
        dots == {i \in 1..Len(body) : body[i] = "."}
        nodot == SelectSeq(body, LAMBDA c : c # ".")
        fail == [ok |-> FALSE, v |-> PyNone]
    IN  IF body = <<"n", "a", "n">> THEN [ok |-> TRUE, v |-> PyNan]
        ELSE IF body = <<"i", "n", "f">>
        THEN [ok |-> TRUE, v |-> IF neg THEN PyNegInf ELSE PyInf]
        ELSE IF \/ Cardinality(dots) > 1
                \/ nodot = << >>
                \/ \E i \in 1..Len(nodot) : nodot[i] \notin Digits
        THEN fail
        ELSE LET fracLen == IF dots = {} THEN 0
                            ELSE Len(body) - (CHOOSE i \in dots : TRUE)
             IN  [ok |-> TRUE,
                  v |-> NearestFloat(IF neg THEN -1 ELSE 1, DigitsValue(nodot),
                                     Pow(10, fracLen))]

(***************************************************************************)
(* State.                                                                  *)
(***************************************************************************)
VARIABLES
    raw,        \* the raw frame-rate value: VideoWriter's frame_rate argument
                \* and VideoReader's self.rate
    vw,         \* VideoWriter object: "unborn" | "ready" | "failed"
    vw_err,     \* the exception VideoWriter.__init__ raised, or "none"
    container,  \* self.container: "none" | "open" | "closed"
    rate_arg,   \* the rate arguments add_stream was called with, in order
    stream,     \* self.stream: "none" | "live"
    encbuf,     \* frames the encoder holds and has not yet returned as packets
    muxed,      \* packets muxed into the container, in order
    calls,      \* the calls write/close made on stream and container, in order
    written,    \* frames of the write calls made before the first close
    handed,     \* number of frames handed to write so far
    closes,     \* number of close() calls
    op,         \* the last write/close call: [name, after_close, err]
    rd_out,     \* outcome of VideoReader.frame_rate: [st, v]
    counter,    \* ImageSequenceWriter.counter
    extension,  \* ImageSequenceWriter.extension
    saved,      \* names ImageSequenceWriter saved under, in order
    fs,         \* frames ImageSequenceWriter saved, in order
    isw_in,     \* frames handed to ImageSequenceWriter.write, in order
    files,      \* ImageSequenceReader.files
    transform,  \* the readers' transform: "none" or "t"
    video_len,  \* len(VideoReader.video)
    got         \* outcome of the last __getitem__: [reader, idx, st, frame]

vars == <<raw, vw, vw_err, container, rate_arg, stream, encbuf, muxed, calls,
          written, handed, closes, op, rd_out, counter, extension, saved, fs, isw_in,
          files, transform, video_len, got>>

writerVars == <<vw, vw_err, container, rate_arg, stream, encbuf, muxed, calls,
                written, handed, closes, op>>
imageWriterVars == <<counter, extension, saved, fs, isw_in>>
readerVars == <<files, transform, video_len, got>>

(***************************************************************************)
(* Frame-rate handling of VideoWriter.__init__.                            *)
(***************************************************************************)
MaxDenominator == 1000

IsInstanceIntFloat(x) == x.t \in {"int", "float"}

\* lines 61-68: [err, v]
\* the string converted with int-like truncation instead of float()
CoerceRateMutStr(frame_rate) ==
    IF frame_rate.t = "str"
    THEN LET r == ParseFloat(frame_rate.s)
         IN  IF r.ok /\ r.v.k = "fin"
             THEN [err |-> "none", v |-> PyFloat(r.v.num \div r.v.den, 1)]
             ELSE IF r.ok THEN [err |-> "none", v |-> r.v]
             ELSE [err |-> "ValueError", v |-> frame_rate]
    ELSE IF ~IsInstanceIntFloat(frame_rate)
    THEN [err |-> "TypeError", v |-> frame_rate]
    ELSE [err |-> "none", v |-> frame_rate]

\* an unparsable string silently replaced by a default rate
CoerceRateMutDefault(frame_rate) ==
    IF frame_rate.t = "str"
    THEN LET r == ParseFloat(frame_rate.s)
         IN  IF r.ok THEN [err |-> "none", v |-> r.v]
             ELSE [err |-> "none", v |-> PyFloat(30, 1)]
    ELSE IF ~IsInstanceIntFloat(frame_rate)
    THEN [err |-> "TypeError", v |-> frame_rate]
    ELSE [err |-> "none", v |-> frame_rate]

CoerceRate(frame_rate) ==
    IF frame_rate.t = "str"
    THEN LET r == ParseFloat(frame_rate.s)
         IN  IF r.ok THEN [err |-> "none", v |-> r.v]
             ELSE [err |-> "ValueError", v |-> frame_rate]
    ELSE IF ~IsInstanceIntFloat(frame_rate)
    THEN [err |-> "TypeError", v |-> frame_rate]
    ELSE [err |-> "none", v |-> frame_rate]

\* lines 72-87: the value handed to add_stream.  Fraction(nan) raises
\* ValueError and Fraction(inf) OverflowError; the except clause then keeps
\* the original value.
\* Fraction's arguments swapped in the integer branch
ToFractionMutSwap(frame_rate) ==
    IF frame_rate.t = "float"
    THEN IF frame_rate.k = "fin"
         THEN LimitDenominator(frame_rate.num, frame_rate.den, MaxDenominator)
         ELSE frame_rate
    ELSE Fraction(1, frame_rate.num)

ToFraction(frame_rate) ==
    IF frame_rate.t = "float"
    THEN IF frame_rate.k = "fin"
         THEN LimitDenominator(frame_rate.num, frame_rate.den, MaxDenominator)
         ELSE frame_rate
    ELSE Fraction(frame_rate.num, 1)

\* lines 61-87 as one function of the caller's value: [err, rate]
NormalizeRate(frame_rate) ==
    LET c == CoerceRate(frame_rate)
    IN  IF c.err # "none" THEN [err |-> c.err, rate |-> PyNone]
        ELSE [err |-> "none", rate |-> ToFraction(c.v)]

\* VideoWriter.__init__(path, frame_rate): openOk and streamOk are the
\* answers of av.open and container.add_stream.
VWInit(openOk, streamOk) ==
    /\ vw = "unborn"
    /\ IF ~openOk
       THEN /\ vw' = "failed"
            /\ vw_err' = "OpenError"
            /\ UNCHANGED <<container, rate_arg, stream>>
       ELSE LET c == CoerceRate(raw)
            IN  IF c.err # "none"
                THEN /\ vw' = "failed"
                     /\ vw_err' = c.err
                     /\ container' = "open"
                     /\ UNCHANGED <<rate_arg, stream>>
                ELSE /\ container' = "open"
                     /\ rate_arg' = Append(rate_arg, ToFraction(c.v))
                     /\ IF streamOk
                        THEN /\ stream' = "live"
                             /\ vw' = "ready"
                             /\ vw_err' = "none"
                        ELSE /\ stream' = "none"
                             /\ vw' = "failed"
                             /\ vw_err' = "StreamError"
    /\ UNCHANGED <<raw, encbuf, muxed, calls, written, handed, closes, op, rd_out>>
    /\ UNCHANGED imageWriterVars
    /\ UNCHANGED readerVars

(***************************************************************************)
(* VideoReader.frame_rate (lines 17-25), on self.rate = raw.               *)
(***************************************************************************)
FrameRate(rate) ==
    IF rate.t = "str"
    THEN LET r == ParseFloat(rate.s)
         IN  IF r.ok THEN [st |-> "ok", v |-> r.v]
             ELSE [st |-> "ValueError", v |-> PyNone]
    ELSE [st |-> "ok", v |-> rate]

VRFrameRate ==
    /\ rd_out' = FrameRate(raw)
    /\ UNCHANGED <<raw>>
    /\ UNCHANGED writerVars
    /\ UNCHANGED imageWriterVars
    /\ UNCHANGED readerVars

(***************************************************************************)
(* VideoWriter.write and VideoWriter.close (lines 101-115).                *)
(*                                                                         *)
(* The encoder is the library's: stream.encode(frame) takes the frame and  *)
(* returns some of the packets it holds, oldest first (emit says how many  *)
(* it is willing to return); stream.encode() returns all it holds.  On a   *)
(* closed container the library either raises or carries on (libOk).  A    *)
(* batch holds at least one frame.                                         *)
(***************************************************************************)
Call(c, a) == [c |-> c, a |-> a]

Min(a, b) == IF a < b THEN a ELSE b

\* The n frames of a write call; a frame is identified by its ordinal among
\* all frames handed to the writer.
Batch(n) == [i \in 1..n |-> handed + i]

\* lines 108-111, from frame t of the batch on: [buf, mux, calls]
RECURSIVE WriteLoop(_, _, _, _)
WriteLoop(frames, emit, t, st) ==
    IF t > Len(frames) THEN st
    ELSE LET buf == Append(st.buf, frames[t])
             n == Min(emit[t], Len(buf))
             packets == SubSeq(buf, 1, n)
         IN  WriteLoop(frames, emit, t + 1,
                 [buf |-> SubSeq(buf, n + 1, Len(buf)),
                  mux |-> st.mux \o packets,
                  calls |-> st.calls \o <<Call("encode", <<frames[t]>>),
                                          Call("mux", packets)>>])

VWWrite(frames, emit, libOk) ==
    /\ vw = "ready"
    /\ handed + Len(frames) <= MaxFrames
    /\ handed' = handed + Len(frames)
    /\ IF container = "closed" /\ ~libOk
       THEN /\ calls' = Append(calls, Call("encode", <<frames[1]>>))
            /\ op' = [name |-> "write", after_close |-> TRUE, err |-> "LibraryError"]
            /\ UNCHANGED <<encbuf, muxed, written>>
       ELSE LET r == WriteLoop(frames, emit, 1,
                               [buf |-> encbuf, mux |-> muxed, calls |-> calls])
            IN  /\ encbuf' = r.buf
                /\ muxed' = r.mux
                /\ calls' = r.calls
                /\ written' = IF container = "closed" THEN written
                              ELSE written \o frames
                /\ op' = [name |-> "write", after_close |-> container = "closed",
                          err |-> "none"]
    /\ UNCHANGED <<raw, vw, vw_err, container, rate_arg, stream, closes, rd_out>>
    /\ UNCHANGED imageWriterVars
    /\ UNCHANGED readerVars

\* close() that closes the container without draining the encoder
VWCloseMutNoFlush(libOk) ==
    /\ vw = "ready"
    /\ closes < MaxClose
    /\ closes' = closes + 1
    /\ calls' = Append(calls, Call("close", << >>))
    /\ container' = "closed"
    /\ op' = [name |-> "close", after_close |-> container = "closed", err |-> "none"]
    /\ UNCHANGED <<raw, vw, vw_err, rate_arg, stream, encbuf, muxed, written, handed,
                   rd_out>>
    /\ UNCHANGED imageWriterVars
    /\ UNCHANGED readerVars

VWClose(libOk) ==
    /\ vw = "ready"
    /\ closes < MaxClose
    /\ closes' = closes + 1
    /\ IF container = "closed" /\ ~libOk
       THEN /\ calls' = Append(calls, Call("encode", << >>))
            /\ op' = [name |-> "close", after_close |-> TRUE, err |-> "LibraryError"]
            /\ UNCHANGED <<encbuf, muxed, container>>
       ELSE /\ calls' = calls \o <<Call("encode", << >>), Call("mux", encbuf),
                                   Call("close", << >>)>>
            /\ muxed' = muxed \o encbuf
            /\ encbuf' = << >>
            /\ container' = "closed"
            /\ op' = [name |-> "close", after_close |-> container = "closed",
                      err |-> "none"]
    /\ UNCHANGED <<raw, vw, vw_err, rate_arg, stream, written, handed, rd_out>>
    /\ UNCHANGED imageWriterVars
    /\ UNCHANGED readerVars

(***************************************************************************)
(* Inputs.                                                                 *)
(***************************************************************************)
RECURSIVE SeqsUpTo(_, _)
SeqsUpTo(S, n) ==
    IF n = 0 THEN {<< >>}
    ELSE LET shorter == SeqsUpTo(S, n - 1)
         IN  shorter \cup {Append(q, x) : q \in shorter, x \in S}

NoOp == [name |-> "none", after_close |-> FALSE, err |-> "none"]
NoGot == [reader |-> "none", idx |-> 0, st |-> "none", frame |-> << >>]

RateChars == {"2", "5", ".", "-", " ", "x"}

RateStrings ==
    SeqsUpTo(RateChars, MaxStrLen)
      \cup {<<"2", "9", ".", "9", "7">>, <<"5", "9", ".", "9", "4">>, <<"3", "0">>,
            <<"3", "0", ".", "0">>, <<"n", "a", "n">>, <<"i", "n", "f">>,
            <<"-", "i", "n", "f">>, <<"0">>, <<"+", "2", "5">>, <<"2", "4", "f", "p", "s">>}

FloatSeeds ==
    {<<n, d>> : n \in 0..(8 * MaxIntRate), d \in {1, 3, 7}}
      \cup {<<2997, 100>>, <<5994, 100>>, <<24000, 1001>>, <<30000, 1001>>,
            <<60000, 1001>>, <<2397, 100>>, <<1499, 100>>}

RateFloats ==
    {NearestFloat(sg, q[1], q[2]) : sg \in {1, -1}, q \in FloatSeeds}
      \cup {PyNan, PyInf, PyNegInf}

RateInputs ==
    {PyInt(n) : n \in (-1..MaxIntRate) \cup {24, 25, 30, 60}}
      \cup {PyStr(cs) : cs \in RateStrings}
      \cup RateFloats
      \cup {Fraction(30000, 1001), Fraction(30, 1), Fraction(1, 2), PyNone}

\* the rates the lifecycle specification constructs writers with
LifecycleRates == {PyInt(30), PyStr(<<"2", "9", ".", "9", "7">>)}

InitWriter ==
    /\ vw = "unborn"
    /\ vw_err = "none"
    /\ container = "none"
    /\ rate_arg = << >>
    /\ stream = "none"
    /\ encbuf = << >>
    /\ muxed = << >>
    /\ calls = << >>
    /\ written = << >>
    /\ handed = 0
    /\ closes = 0
    /\ op = NoOp

InitImageWriter ==
    /\ counter = 0
    /\ extension = <<"j", "p", "g">>
    /\ saved = << >>
    /\ fs = << >>
    /\ isw_in = << >>

InitReaders ==
    /\ files = << >>
    /\ transform = "none"
    /\ video_len = 0
    /\ got = NoGot

(***************************************************************************)
(* Frame-rate specification: one raw rate, given to VideoWriter.__init__   *)
(* and read through VideoReader.frame_rate.                                *)
(***************************************************************************)
InitRate ==
    /\ raw \in RateInputs
    /\ rd_out = [st |-> "none", v |-> PyNone]
    /\ InitWriter
    /\ InitImageWriter
    /\ InitReaders

NextRate ==
    \/ \E openOk \in BOOLEAN, streamOk \in BOOLEAN : VWInit(openOk, streamOk)
    \/ VRFrameRate

SpecRate == InitRate /\ [][NextRate]_vars

(***************************************************************************)
(* Lifecycle specification of one VideoWriter.                             *)
(***************************************************************************)
Init ==
    /\ raw \in LifecycleRates
    /\ rd_out = [st |-> "none", v |-> PyNone]
    /\ InitWriter
    /\ InitImageWriter
    /\ InitReaders

Next ==
    \/ \E openOk \in BOOLEAN, streamOk \in BOOLEAN : VWInit(openOk, streamOk)
    \/ \E n \in 1..MaxBatch, libOk \in BOOLEAN :
          \E emit \in [1..n -> 0..MaxBatch] : VWWrite(Batch(n), emit, libOk)
    \/ \E libOk \in BOOLEAN : VWClose(libOk)

Spec == Init /\ [][Next]_vars

(***************************************************************************)
(* ImageSequenceWriter (lines 135-150).  A frame is its pixel content; the *)
(* directory fs maps a file name to the frame saved under it.              *)
(***************************************************************************)
ZFillWidth == 4

Pixels == {"p", "q"}

DigitChar(d) ==
    CASE d = 0 -> "0" [] d = 1 -> "1" [] d = 2 -> "2" [] d = 3 -> "3" [] d = 4 -> "4"
      [] d = 5 -> "5" [] d = 6 -> "6" [] d = 7 -> "7" [] d = 8 -> "8" [] d = 9 -> "9"

\* str(n), n >= 0
RECURSIVE Str(_)
Str(n) == IF n < 10 THEN <<DigitChar(n)>> ELSE Append(Str(n \div 10), DigitChar(n % 10))

\* cs.zfill(width)
RECURSIVE ZFill(_, _)
ZFill(cs, width) == IF Len(cs) >= width THEN cs ELSE ZFill(<<"0">> \o cs, width)

\* str(self.counter).zfill(4) + '.' + self.extension
SaveName(n, ext) == ZFill(Str(n), ZFillWidth) \o <<".">> \o ext

\* lines 144-147, from frame t of the batch on: [counter, saved, fs]
RECURSIVE SaveLoop(_, _, _, _)
SaveLoop(frames, ext, t, st) ==
    IF t > Len(frames) THEN st
    ELSE LET name == SaveName(st.counter, ext)
         IN  SaveLoop(frames, ext, t + 1,
                 [counter |-> st.counter + 1,
                  saved |-> Append(st.saved, name),
                  fs |-> [x \in (DOMAIN st.fs) \cup {name} |->
                             IF x = name THEN frames[t] ELSE st.fs[x]]])

\* a write that numbers the frames of each call from 0
ISWWriteMutPerCall(frames) ==
    /\ counter + Len(frames) <= MaxImages
    /\ isw_in' = isw_in \o frames
    /\ LET r == SaveLoop(frames, extension, 1,
                         [counter |-> 0, saved |-> saved, fs |-> fs])
       IN  /\ counter' = r.counter
           /\ saved' = r.saved
           /\ fs' = r.fs
    /\ UNCHANGED <<raw, rd_out, extension>>
    /\ UNCHANGED writerVars
    /\ UNCHANGED readerVars

ISWWrite(frames) ==
    /\ counter + Len(frames) <= MaxImages
    /\ isw_in' = isw_in \o frames
    /\ LET r == SaveLoop(frames, extension, 1,
                         [counter |-> counter, saved |-> saved, fs |-> fs])
       IN  /\ counter' = r.counter
           /\ saved' = r.saved
           /\ fs' = r.fs
    /\ UNCHANGED <<raw, rd_out, extension>>
    /\ UNCHANGED writerVars
    /\ UNCHANGED readerVars

\* close(): pass
ISWClose ==
    /\ UNCHANGED vars

InitImages ==
    /\ raw = PyNone
    /\ rd_out = [st |-> "none", v |-> PyNone]
    /\ InitWriter
    /\ counter = 0
    /\ extension \in {<<"j", "p", "g">>, <<"p", "n", "g">>}
    /\ saved = << >>
    /\ fs = << >>
    /\ isw_in = << >>
    /\ InitReaders

NextImages ==
    \/ \E frames \in SeqsUpTo(Pixels, MaxBatch) : ISWWrite(frames)
    \/ ISWClose

SpecImages == InitImages /\ [][NextImages]_vars

(***************************************************************************)
(* The readers' __getitem__ (lines 30-35 and 127-132).                     *)
(***************************************************************************)
\* the file names a directory may hold
FileNames == {<<"0", "0", "0", "0">>, <<"0", "0", "0", "1">>, <<"1", "0">>, <<"2">>, <<"9">>}

\* str < str on digit strings
RECURSIVE LexLess(_, _)
LexLess(a, b) ==
    IF b = << >> THEN FALSE
    ELSE IF a = << >> THEN TRUE
    ELSE IF Head(a) # Head(b) THEN DigitVal(Head(a)) < DigitVal(Head(b))
    ELSE LexLess(Tail(a), Tail(b))

\* sorted(os.listdir(path)), line 121
RECURSIVE Sorted(_)
Sorted(D) ==
    IF D = {} THEN << >>
    ELSE LET m == CHOOSE x \in D : \A y \in D : x = y \/ LexLess(x, y)
         IN  <<m>> \o Sorted(D \ {m})

\* indexing that rejects every negative index
ListIndexMutNoNegative(idx, n) ==
    IF idx >= 0 /\ idx < n THEN idx ELSE -1

\* seq[idx] of a Python list of length n: the 0-based position read, or -1
\* for IndexError
ListIndex(idx, n) ==
    IF idx >= 0 /\ idx < n THEN idx
    ELSE IF idx < 0 /\ idx >= -n THEN n + idx
    ELSE -1

\* self.transform(frame) if self.transform is not None
Transformed(frame) == IF transform = "none" THEN <<frame>> ELSE <<<<transform, frame>>>>

\* ImageSequenceReader.__getitem__(idx)
ISRGetItem(idx) ==
    /\ LET pos == ListIndex(idx, Len(files))
       IN  got' = IF pos = -1
                  THEN [reader |-> "images", idx |-> idx, st |-> "IndexError",
                        frame |-> << >>]
                  ELSE [reader |-> "images", idx |-> idx, st |-> "ok",
                        frame |-> Transformed(files[pos + 1])]
    /\ UNCHANGED <<raw, rd_out, files, transform, video_len>>
    /\ UNCHANGED writerVars
    /\ UNCHANGED imageWriterVars

\* VideoReader.__getitem__(idx): self.video[idx] is the pims reader's; wraps
\* says whether it counts a negative index from the end or raises IndexError.
\* The frame at position i of the video is <<i>>.
VRGetItem(idx, wraps) ==
    /\ LET pos == IF idx < 0 /\ ~wraps THEN -1 ELSE ListIndex(idx, video_len)
       IN  got' = IF pos = -1
                  THEN [reader |-> "video", idx |-> idx, st |-> "IndexError",
                        frame |-> << >>]
                  ELSE [reader |-> "video", idx |-> idx, st |-> "ok",
                        frame |-> Transformed(<<pos>>)]
    /\ UNCHANGED <<raw, rd_out, files, transform, video_len>>
    /\ UNCHANGED writerVars
    /\ UNCHANGED imageWriterVars

InitReading ==
    /\ raw = PyNone
    /\ rd_out = [st |-> "none", v |-> PyNone]
    /\ InitWriter
    /\ InitImageWriter
    /\ \E D \in SUBSET FileNames : Cardinality(D) <= MaxLen /\ files = Sorted(D)
    /\ transform \in {"none", "t"}
    /\ video_len \in 0..MaxLen
    /\ got = NoGot

Indices == (-(MaxLen + 2))..(MaxLen + 2)

NextReading ==
    \/ \E idx \in Indices : ISRGetItem(idx)
    \/ \E idx \in Indices, wraps \in BOOLEAN : VRGetItem(idx, wraps)

SpecReading == InitReading /\ [][NextReading]_vars

(***************************************************************************)
(* Properties of the frame-rate handling (SpecRate).                       *)
(***************************************************************************)
\* VideoWriter.__init__ got past av.open, i.e. reached the frame-rate code
Normalized == vw # "unborn" /\ vw_err # "OpenError"

\* the float a str parses to, if it parses
Parsed == ParseFloat(raw.s)

Unparsable == raw.t = "str" /\ ~Parsed.ok

\* the float that raw is or parses to: [ok, v]
AsFloat ==
    IF raw.t = "float" THEN [ok |-> TRUE, v |-> raw]
    ELSE IF raw.t = "str" THEN Parsed
    ELSE [ok |-> FALSE, v |-> PyNone]

\* C4: a string that float() rejects makes VideoWriter.__init__ raise
\* ValueError ("Invalid frame_rate") with no stream added and no rate
\* substituted, and makes VideoReader.frame_rate raise ValueError.
C4_InvalidStringRaises ==
    Unparsable =>
        /\ Normalized => /\ vw = "failed"
                         /\ vw_err = "ValueError"
                         /\ rate_arg = << >>
                         /\ stream = "none"
        /\ rd_out.st # "none" => rd_out.st = "ValueError"

C4_Witness ==
    /\ raw = PyStr(<<"2", "4", "f", "p", "s">>)
    /\ vw = "failed"
    /\ vw_err = "ValueError"
    /\ container = "open"
    /\ rd_out.st = "ValueError"

\* C5 (as claimed): __init__ raises TypeError exactly for a value that is
\* neither int, float, str nor Fraction, and a Fraction configures the stream.
C5_FractionAccepted ==
    Normalized =>
        /\ vw_err = "TypeError" <=> raw.t \notin {"int", "float", "str", "Fraction"}
        /\ raw.t = "Fraction" => rate_arg = <<raw>>

\* |xn/xd - a/b| <= |xn/xd - p/q| for every p/q with q <= MaxDenominator
Closest(xn, xd, a, b) ==
    \A q \in 1..MaxDenominator :
        \A p \in {(xn * q) \div xd, (xn * q) \div xd + 1} :
            Abs(xn * b - a * xd) * q <= Abs(xn * q - p * xd) * b

IsRational(x) == x.t = "Fraction" /\ x.den >= 1 /\ x.den <= MaxDenominator

\* the float nearest to 29.97, given as a float or as the string "29.97"
Is2997 == raw \in {NearestFloat(1, 2997, 100), PyStr(<<"2", "9", ".", "9", "7">>)}

RationalRate(x) ==
    /\ IsRational(x)
    /\ (AsFloat.ok /\ AsFloat.v.k = "fin" /\ AsFloat.v.den # 1)
          => Closest(AsFloat.v.num, AsFloat.v.den, x.num, x.den)
    /\ Is2997 => Abs(x.num * 100 - 2997 * x.den) * 1000 <= 100 * x.den

\* C6 (as claimed): every value handed to add_stream is an exact rational
\* with denominator <= 1000, the closest such rational to a non-integer
\* float input, within 0.001 of 29.97 for 29.97.
C6_AlwaysRational ==
    rate_arg # << >> => RationalRate(rate_arg[1])

\* C6 (amended): the same for every finite rate; for nan and inf (a float,
\* or a string that parses to one) the float itself is handed to add_stream.
C6_RationalUnlessNonFinite ==
    rate_arg # << >> =>
        IF AsFloat.ok /\ AsFloat.v.k # "fin"
        THEN rate_arg[1] = AsFloat.v
        ELSE RationalRate(rate_arg[1])

C6_Witness ==
    /\ raw = PyStr(<<"2", "9", ".", "9", "7">>)
    /\ Parsed.v.den > MaxDenominator
    /\ stream = "live"
    /\ rate_arg # << >>
    /\ rate_arg[1].den > 1

\* C7: an int n, an integer-valued float n, or a string that parses to one,
\* reaches add_stream as the rational n/1.
C7_IntegerRate ==
    rate_arg # << >> =>
        /\ raw.t = "int" => (rate_arg[1].t = "Fraction" /\ rate_arg[1].num = raw.num
                                                        /\ rate_arg[1].den = 1)
        /\ (AsFloat.ok /\ AsFloat.v.k = "fin" /\ AsFloat.v.den = 1)
              => (rate_arg[1].t = "Fraction" /\ rate_arg[1].num = AsFloat.v.num
                                             /\ rate_arg[1].den = 1)

C7_Witness ==
    /\ raw = PyStr(<<"3", "0", ".", "0">>)
    /\ stream = "live"
    /\ rate_arg = <<Fraction(30, 1)>>

\* C8: a string that parses gives what the float it parses to gives, in
\* VideoWriter.__init__ and in VideoReader.frame_rate.
C8_StringAsItsFloat ==
    (raw.t = "str" /\ Parsed.ok) =>
        /\ Normalized =>
              /\ NormalizeRate(Parsed.v).err = "none"
              /\ vw_err \in {"none", "StreamError"}
              /\ rate_arg = <<NormalizeRate(Parsed.v).rate>>
        /\ rd_out.st # "none" => rd_out = FrameRate(Parsed.v)

C8_Witness ==
    /\ raw = PyStr(<<" ", "-", "2", ".", "5">>) \/ raw = PyStr(<<"5", "9", ".", "9", "4">>)
    /\ vw = "ready"
    /\ rd_out.st = "ok"
    /\ rate_arg[1].den > 1

\* the two values denote the same number
SameRate(x, y) ==
    IF x.k \in {"nan", "inf", "ninf"} \/ y.k \in {"nan", "inf", "ninf"}
    THEN x = y
    ELSE x.num * y.den = y.num * x.den

\* C9 (as claimed): the accessor fails exactly when the writer's frame-rate
\* code fails, with the same error, and otherwise both give the same rate.
C9_OneNormalization ==
    (Normalized /\ rd_out.st # "none") =>
        /\ rd_out.st = "ValueError" <=> vw_err = "ValueError"
        /\ vw_err # "TypeError"
        /\ (rd_out.st = "ok" /\ rate_arg # << >>) => SameRate(rd_out.v, rate_arg[1])

(***************************************************************************)
(* Properties of the VideoWriter lifecycle (Spec).                         *)
(***************************************************************************)
\* C1 (as claimed): once the container is closed, a write call raises
\* WriterClosed and neither encodes nor muxes anything.
C1_WriteAfterCloseFails ==
    [][(container = "closed" /\ op'.name = "write")
          => (op'.err = "WriterClosed" /\ calls' = calls /\ muxed' = muxed
                                      /\ encbuf' = encbuf)]_vars

\* index of the first container.close() among the calls, 0 if none
FirstClose ==
    IF \E i \in 1..Len(calls) : calls[i].c = "close"
    THEN CHOOSE i \in 1..Len(calls) :
             /\ calls[i].c = "close"
             /\ \A j \in 1..(i - 1) : calls[j].c # "close"
    ELSE 0

\* the calls of the writer's lifetime: up to and including the first close
Lifetime == IF FirstClose = 0 THEN calls ELSE SubSeq(calls, 1, FirstClose)

\* the arguments of the calls named c, concatenated in call order
RECURSIVE Concat(_, _)
Concat(cs, c) ==
    IF cs = << >> THEN << >>
    ELSE (IF Head(cs).c = c THEN Head(cs).a ELSE << >>) \o Concat(Tail(cs), c)

\* C10: up to the first close, the frames encoded are the written batches in
\* call order; the packets muxed, followed by what the encoder still holds,
\* are those frames in that order; close() calls encode() with no frame after
\* every frame has been encoded, muxes what it returns, and only then closes
\* the container, so that a closed container holds every written frame; no
\* operation but close() closes the container.
C10_OrderedThenFlushed ==
    /\ Concat(Lifetime, "encode") = written
    /\ written = [i \in 1..Len(written) |-> i]
    /\ muxed = Concat(calls, "mux")
    /\ FirstClose = 0 =>
          /\ container # "closed"
          /\ closes = 0
          /\ muxed \o encbuf = written
    /\ FirstClose # 0 =>
          /\ container = "closed"
          /\ closes >= 1
          /\ FirstClose >= 3
          /\ calls[FirstClose - 2] = Call("encode", << >>)
          /\ calls[FirstClose - 1].c = "mux"
          /\ \A i \in 1..(FirstClose - 3) :
                \/ calls[i].c = "encode" /\ calls[i].a # << >>
                \/ calls[i].c = "mux"
          /\ Concat(Lifetime, "mux") = written

\* two write calls, the encoder still holding a frame at close()
C10_Witness ==
    /\ container = "closed"
    /\ closes = 1
    /\ Len(written) >= 3
    /\ op.name = "close"
    /\ calls[FirstClose - 1].a # << >>
    /\ \E i \in 1..Len(calls) : calls[i].c = "mux" /\ calls[i].a = <<1>>
    /\ muxed = written

(***************************************************************************)
(* Properties of ImageSequenceWriter (SpecImages).                         *)
(***************************************************************************)
\* k written with four decimal digits, k < 10000
FourDigits(k) ==
    <<DigitChar((k \div 1000) % 10), DigitChar((k \div 100) % 10),
      DigitChar((k \div 10) % 10), DigitChar(k % 10)>>

\* C2: the counter is the number of frames written so far; the k-th frame
\* written is in the file named k zero-padded to width 4 (plus the
\* extension); no name is used twice; the counter starts at 0 and a step
\* never decreases it, a write of n frames raising it by exactly n.
C2_Numbering ==
    /\ counter = 0
    /\ [](/\ counter = Len(isw_in)
          /\ Len(saved) = counter
          /\ \A k \in 0..(counter - 1) :
                /\ saved[k + 1] = FourDigits(k) \o <<".">> \o extension
                /\ saved[k + 1] \in DOMAIN fs
                /\ fs[saved[k + 1]] = isw_in[k + 1]
          /\ \A i, j \in 1..Len(saved) : saved[i] = saved[j] => i = j
          /\ Cardinality(DOMAIN fs) = counter)
    /\ [][/\ counter' >= counter
          /\ counter' - counter = Len(isw_in') - Len(isw_in)]_vars

\* two write calls of 3 and 2 frames: files 0000 .. 0004
C2_Witness ==
    /\ counter = 5
    /\ isw_in = <<"p", "q", "p", "q", "q">>
    /\ saved[4] = <<"0", "0", "0", "3", ".", "j", "p", "g">>
    /\ fs[saved[5]] = "q"

(***************************************************************************)
(* Properties of the readers (SpecReading).                                *)
(***************************************************************************)
LenOf(reader) == IF reader = "images" THEN Len(files) ELSE video_len

\* the frame at 0-based position pos of the reader's source
FrameAt(reader, pos) == IF reader = "images" THEN files[pos + 1] ELSE <<pos>>

====
